---- MODULE Spec2Model ----
(***************************************************************************)
(* IntersectionTrafficFlow (src/IntersectionTrafficFlow/core.py): the      *)
(* layout engine and flow encoder behind plot(), as a state machine.       *)
(*                                                                         *)
(* An instance is constructed from a direction map and a style             *)
(* configuration; plot(ax, od_matrix) completes and sorts the OD matrix,   *)
(* derives the unique directions, and issues the edge and node layers on   *)
(* the drawing surface.  The drawing surface is the sequence of commands   *)
(* issued on it.  Trigonometric coordinates are kept symbolic (the         *)
(* direction and the signed lane offset that determine them).              *)
(***************************************************************************)
EXTENDS Integers, Sequences, FiniteSets, TLC

(***************************************************************************)
(* Python floats (IEEE-754 binary64, round to nearest, ties to even).      *)
(* A natural number of arbitrary size is a sequence of bits, least         *)
(* significant first, without leading (high) zero bits; zero is <<>>.      *)
(* A non-negative float is <<m, e>>: value m * 2^e with m of exactly       *)
(* MantissaBits bits, held as its limbs of LimbBits bits (least            *)
(* significant first), or <<<<>>, 0>> for 0.0.  Small operands are         *)
(* naturals below 2^12.                                                    *)
(***************************************************************************)
MantissaBits == 53
LimbBits == 15
LimbBase == 2 ^ LimbBits

\* Limbs of fraction produced by the long division before rounding; enough
\* for every quotient of two naturals below 2^12 to keep MantissaBits + 2 bits.
FracLimbs == 5

\* A sequence given by a rule, as the list of its elements.
Listed(s) == s \o <<>>

Zeros(n) == Listed([i \in 1..n |-> 0])

RECURSIVE BigFromNat(_)
BigFromNat(n) == IF n = 0 THEN <<>> ELSE <<n % 2>> \o BigFromNat(n \div 2)

BigStrip(x) ==
    LET ones == { i \in DOMAIN x : x[i] = 1 }
    IN  IF ones = {} THEN <<>>
        ELSE SubSeq(x, 1, CHOOSE i \in ones : \A j \in ones : j <= i)

RECURSIVE BitsValue(_)
BitsValue(bits) == IF bits = <<>> THEN 0 ELSE Head(bits) + 2 * BitsValue(Tail(bits))

ToLimbs(x) ==
    LET n == (Len(x) + LimbBits - 1) \div LimbBits
    IN  Listed([j \in 1..n |->
            BitsValue(SubSeq(x, LimbBits * (j - 1) + 1,
                             IF LimbBits * j < Len(x) THEN LimbBits * j ELSE Len(x)))])

\* All LimbBits * Len(limbs) bits, high zeros included.
LimbBitsOf(limbs) ==
    Listed([i \in 1..(LimbBits * Len(limbs)) |->
        (limbs[((i - 1) \div LimbBits) + 1] \div (2 ^ ((i - 1) % LimbBits))) % 2])

RECURSIVE LimbMulCarry(_, _, _)
LimbMulCarry(limbs, k, c) ==
    IF limbs = <<>> THEN <<c>>
    ELSE LET t == Head(limbs) * k + c
         IN  <<t % LimbBase>> \o LimbMulCarry(Tail(limbs), k, t \div LimbBase)

RECURSIVE LimbAddCarry(_, _, _)
LimbAddCarry(x, y, c) ==
    IF x = <<>> /\ y = <<>> THEN <<c>>
    ELSE LET a == IF x = <<>> THEN 0 ELSE Head(x)
             b == IF y = <<>> THEN 0 ELSE Head(y)
             t == a + b + c
         IN  <<t % LimbBase>> \o LimbAddCarry(IF x = <<>> THEN <<>> ELSE Tail(x),
                                              IF y = <<>> THEN <<>> ELSE Tail(y),
                                              t \div LimbBase)

BigAdd(x, y) == BigStrip(LimbBitsOf(LimbAddCarry(ToLimbs(x), ToLimbs(y), 0)))

BigShiftLeft(x, s) == IF x = <<>> THEN <<>> ELSE Zeros(s) \o x

\* x <= y for two limb sequences of the same length, compared from the top.
BigLE(x, y) ==
    \/ x = y
    \/ \E i \in DOMAIN x :
          /\ x[i] < y[i]
          /\ \A j \in (i + 1)..Len(x) : x[j] = y[j]

FloatZero == << <<>>, 0 >>

\* The mantissa bits of a float.
MantissaOf(f) == BigStrip(LimbBitsOf(f[1]))

\* The float nearest to x * 2^e (ties to even).
FloatRound(x, e) ==
    LET L == Len(x)
    IN  IF L = 0 THEN FloatZero
        ELSE IF L <= MantissaBits
        THEN << ToLimbs(Zeros(MantissaBits - L) \o x), e - (MantissaBits - L) >>
        ELSE LET d      == L - MantissaBits
                 high   == SubSeq(x, d + 1, L)
                 guard  == x[d]
                 sticky == \E i \in 1..(d - 1) : x[i] = 1
                 up     == guard = 1 /\ (sticky \/ high[1] = 1)
                 m      == IF up THEN BigAdd(high, <<1>>) ELSE high
             IN  IF Len(m) > MantissaBits
                 THEN << ToLimbs(Tail(m)), e + d + 1 >>
                 ELSE << ToLimbs(m), e + d >>

FloatOfNat(n) == FloatRound(BigFromNat(n), 0)

\* n limbs of the fraction r / b (0 <= r < b), least significant first, and
\* the remainder left after them.
RECURSIVE FracDivide(_, _, _, _)
FracDivide(r, b, n, q) ==
    IF n = 0 THEN << q, r >>
    ELSE LET t == r * LimbBase
         IN  FracDivide(t % b, b, n - 1, <<t \div b>> \o q)

\* a / b for naturals a and b > 0 (Python's true division of two ints).
FloatDiv(a, b) ==
    LET fr     == FracDivide(a % b, b, FracLimbs, <<>>)
        q      == LimbBitsOf(fr[1]) \o BigFromNat(a \div b)
        sticky == IF fr[2] # 0 THEN 1 ELSE 0
    IN  FloatRound(BigStrip(<<sticky>> \o q), -(FracLimbs * LimbBits + 1))

\* k * f for a natural k and a float f.
FloatMulNat(k, f) == FloatRound(BigStrip(LimbBitsOf(LimbMulCarry(f[1], k, 0))), f[2])

\* n + f for a natural n and a float f.
FloatAddNat(n, f) ==
    IF f[1] = <<>> THEN FloatOfNat(n)
    ELSE IF f[2] < 0
    THEN FloatRound(BigAdd(BigShiftLeft(BigFromNat(n), -f[2]), MantissaOf(f)), f[2])
    ELSE FloatRound(BigAdd(BigFromNat(n), BigShiftLeft(MantissaOf(f), f[2])), 0)

\* f <= g for two non-negative floats.
FloatLE(f, g) ==
    IF f[1] = <<>> THEN TRUE
    ELSE IF g[1] = <<>> THEN FALSE
    ELSE IF f[2] # g[2] THEN f[2] < g[2]
    ELSE BigLE(f[1], g[1])

(***************************************************************************)
(* Bounds of the model and the constructor's defaults.                     *)
(***************************************************************************)
\* Repeated plot calls on one instance: number of calls, longest OD list and
\* largest flow value.
MaxReplayCalls == 2
MaxReplayLen == 1
MaxReplayValue == 1
\* Longest OD list handed to plot, and largest flow value in it.
MaxLen == 2
MaxValue == 2
\* Number of plot calls on one instance.
MaxCalls == 1
\* Largest value handed to a direct get_linewidth call.
MaxFlow == 25
\* Longest ring handed to a direct calculate_circular_distance call.
MaxRing == 4
\* Largest direction map handed to the constructor alone.
MaxDirs == 3

radius == 10
width_road == 3
crossbar == FALSE
exit_arrow == TRUE
centerline == TRUE
direction_text == TRUE
sum_movement_text == TRUE
individual_movement_text == TRUE

\* Direction labels, in the order a direction map lists them, and the
\* compass angles a map may give them.
LabelOrder == <<"N", "E", "S", "W", "NE", "SE", "SW", "NW">>
Labels == {"N", "E", "S"}
Angles == {0, 60, 180}

\* custom_directions: a dict, as the sequence of its items in insertion order.
\* Maps of up to two directions take any angles (equal ones included); longer
\* maps take pairwise distinct angles.
DirectionMaps ==
    UNION { { [i \in 1..n |-> <<LabelOrder[i], f[i]>>] :
                f \in { g \in [1..n -> Angles] :
                          n <= 2 \/ \A i, j \in 1..n : i # j => g[i] # g[j] } }
            : n \in 1..Cardinality(Labels) }

\* Direction maps handed to the constructor alone: any angles, equal ones
\* included, in any order.
ConstructAngles == {0, 60, 180, 240}
ConstructMaps ==
    UNION { { [i \in 1..n |-> <<LabelOrder[i], f[i]>>] : f \in [1..n -> ConstructAngles] }
            : n \in 1..MaxDirs }

\* Rings handed to calculate_circular_distance: lists of distinct labels.
RingLabels == { LabelOrder[i] : i \in 1..MaxRing }
Rings ==
    UNION { { r \in [1..n -> RingLabels] : \A i, j \in 1..n : i # j => r[i] # r[j] }
            : n \in 1..MaxRing }

\* (min_edge_width, max_edge_width) pairs: the default and the examples'.
DefaultWidths == <<1, 15>>
WidthConfigs == {<<1, 15>>, <<5, 5>>, <<1, 10>>}

\* cmap_name: a continuous colormap, or a flat colour name.
Colormaps == {"Set2", "tab10", "viridis"}
FlatColors == {"black"}

\* Direction maps and OD lists of the repeated calls.
ReplayMaps ==
    { dm \in DirectionMaps :
        Len(dm) >= 2 /\ \A i, j \in DOMAIN dm : i # j => dm[i][2] # dm[j][2] }
ReplayMatrices ==
    UNION { [1..n -> Labels \X Labels \X (0..MaxReplayValue)] : n \in 0..MaxReplayLen }

\* OD lists handed to plot.
OdTriples == Labels \X Labels \X (0..MaxValue)
OdMatrices == UNION { [1..n -> OdTriples] : n \in 0..MaxLen }

(***************************************************************************)
(* Sequences, dicts and sorting.                                           *)
(***************************************************************************)
Range(s) == { s[i] : i \in DOMAIN s }

\* The orders in which a set can be iterated.
IterationOrders(S) ==
    { p \in [1..Cardinality(S) -> S] : \A i, j \in DOMAIN p : i # j => p[i] # p[j] }

\* list.index: the 0-based position of the first occurrence.
IndexOf(s, v) == (CHOOSE i \in DOMAIN s : s[i] = v /\ \A j \in 1..(i - 1) : s[j] # v) - 1

\* Tuple comparison of two keys of the same length.
RECURSIVE KeyLess(_, _)
KeyLess(a, b) ==
    IF a = <<>> THEN FALSE
    ELSE IF Head(a) # Head(b) THEN Head(a) < Head(b)
    ELSE KeyLess(Tail(a), Tail(b))

\* sorted(items, key=...): a stable sort of <<key, item>> pairs, ascending.
\* An element's place is the number of elements with a smaller key plus
\* the number of earlier elements with an equal key.
SortPlace(pairs, i) ==
    Cardinality({ j \in DOMAIN pairs :
                    \/ KeyLess(pairs[j][1], pairs[i][1])
                    \/ j < i /\ ~KeyLess(pairs[i][1], pairs[j][1]) }) + 1

Placed(pairs, places) ==
    Listed([p \in DOMAIN pairs |-> pairs[CHOOSE i \in DOMAIN pairs : places[i] = p]])

SortedByKey(pairs) == Placed(pairs, Listed([i \in DOMAIN pairs |-> SortPlace(pairs, i)]))

Items(pairs) == Listed([i \in DOMAIN pairs |-> pairs[i][2]])

VARIABLES
    compass_direction_angles,  \* dict label -> compass angle, as item sequence
    left_hand_traffic,         \* _left_hand_traffic
    driving_side_factor,
    cmap_name,
    cmap_edges_name,           \* "None" or a colormap name
    min_edge_width,
    max_edge_width,
    roadside,
    cartesian_angles,          \* dict label -> cartesian angle
    directions,                \* keys of the direction -> Point dict, in order
    ordered_directions,
    colors,                    \* dict label -> colour
    edge_cmap,                 \* "unset" until plot_edges sets it
    roadside_anchors,          \* dict label -> anchors, <<>> when empty
    ax,                        \* commands issued on the drawing surface
    od_arg,                    \* the od_matrix argument of the last plot call
    od_matrix,                 \* plot's completed and sorted od_matrix
    unique_directions,         \* plot's unique_directions
    raised,                    \* exception the last call raised, or "None"
    calls,                     \* plot calls made
    call,                      \* arguments of the last direct helper call
    ret                        \* its return value

config == <<compass_direction_angles, cmap_name, cmap_edges_name, min_edge_width,
            max_edge_width, roadside, cartesian_angles, directions,
            ordered_directions, colors>>
traffic == <<left_hand_traffic, driving_side_factor>>
plotted == <<edge_cmap, roadside_anchors, ax, od_arg, od_matrix,
             unique_directions, raised, calls>>
probe == <<call, ret>>
vars == <<config, traffic, plotted, probe>>

(***************************************************************************)
(* Construction.                                                           *)
(***************************************************************************)
DictKeys(items) == Listed([i \in DOMAIN items |-> items[i][1]])
DictGet(items, k) == items[CHOOSE i \in DOMAIN items : items[i][1] = k][2]

calculate_cartesian_angles(cda) ==
    [d \in Range(DictKeys(cda)) |-> (450 - DictGet(cda, d)) % 360]

\* The keys of the direction -> Point dict follow compass_direction_angles.
calculate_direction_point(cda) == DictKeys(cda)

\* An ordering by the transformed angle.
order_directions_by_cartesian(cda) ==
    Items(SortedByKey(Listed([i \in DOMAIN cda |-> << <<(450 - cda[i][2]) % 360>>, cda[i][1] >>])))

order_directions(cda) ==
    Items(SortedByKey(Listed([i \in DOMAIN cda |-> << <<cda[i][2]>>, cda[i][1] >>])))

\* A colour assignment indexed by ordered_directions.
generate_colors_by_ordered(name, dirs, ordered) ==
    IF name \in Colormaps
    THEN [d \in Range(dirs) |->
            [cmap |-> name, index |-> IndexOf(ordered, d), total |-> Len(dirs)]]
    ELSE [d \in Range(dirs) |-> [cmap |-> "flat", index |-> 0, total |-> 1]]

\* A colour: a colormap sampled at index / total, or a flat colour name.
generate_colors(name, dirs, ordered) ==
    IF name \in Colormaps
    THEN [d \in Range(dirs) |->
            [cmap |-> name, index |-> IndexOf(dirs, d), total |-> Len(dirs)]]
    ELSE [d \in Range(dirs) |-> [cmap |-> "flat", index |-> 0, total |-> 1]]

Construct(custom_directions, lht, name, edges_name, widths, with_roadside) ==
    /\ compass_direction_angles = custom_directions
    /\ cmap_name = name
    /\ cmap_edges_name = edges_name
    /\ min_edge_width = widths[1]
    /\ max_edge_width = widths[2]
    /\ roadside = with_roadside
    /\ cartesian_angles = calculate_cartesian_angles(custom_directions)
    /\ directions = calculate_direction_point(custom_directions)
    /\ ordered_directions = order_directions(custom_directions)
    /\ colors = generate_colors(name, calculate_direction_point(custom_directions),
                                order_directions(custom_directions))
    /\ left_hand_traffic = lht
    /\ driving_side_factor = IF lht THEN -1 ELSE 1
    /\ edge_cmap = "unset"
    /\ roadside_anchors = <<>>
    /\ ax = <<>>
    /\ od_arg = <<>>
    /\ od_matrix = <<>>
    /\ unique_directions = <<>>
    /\ raised = "None"
    /\ calls = 0

(***************************************************************************)
(* Flow encoder.  A helper that can raise returns [raised, value].         *)
(***************************************************************************)
Ok(v) == [raised |-> "None", value |-> v]
Raise(e) == [raised |-> e, value |-> <<>>]
NotCalled == Raise("NotCalled")

\* The labels sort_od_matrix collects in its set.
OdDirections(od) == { od[i][1] : i \in DOMAIN od } \cup { od[i][2] : i \in DOMAIN od }

\* A completion that adds a repeated pair's values up.
DictSetAccumulate(items, origin, destination, value) ==
    IF \E i \in DOMAIN items : items[i][1] = origin /\ items[i][2] = destination
    THEN Listed([i \in DOMAIN items |->
            IF items[i][1] = origin /\ items[i][2] = destination
            THEN <<origin, destination, items[i][3] + value>> ELSE items[i]])
    ELSE Append(items, <<origin, destination, value>>)

\* complete_od_matrix[(origin, destination)] = value on a dict kept as its
\* item sequence: an existing key keeps its position.
DictSet(items, origin, destination, value) ==
    IF \E i \in DOMAIN items : items[i][1] = origin /\ items[i][2] = destination
    THEN Listed([i \in DOMAIN items |->
            IF items[i][1] = origin /\ items[i][2] = destination
            THEN <<origin, destination, value>> ELSE items[i]])
    ELSE Append(items, <<origin, destination, value>>)

RECURSIVE DictSetAll(_, _)
DictSetAll(items, od) ==
    IF od = <<>> THEN items
    ELSE DictSetAll(DictSet(items, od[1][1], od[1][2], od[1][3]), Tail(od))

\* The |D|^2 zero entries, inserted origin by origin in the set's order.
ZeroMatrix(order) ==
    LET n == Len(order)
    IN  Listed([k \in 1..(n * n) |->
                   <<order[((k - 1) \div n) + 1], order[((k - 1) % n) + 1], 0>>])

\* A completion returned in the dict's own order.
SortCompletedUnsorted(completed, ordered) ==
    IF \E i \in DOMAIN completed :
          completed[i][1] \notin Range(ordered) \/ completed[i][2] \notin Range(ordered)
    THEN Raise("KeyError")
    ELSE Ok(completed)

\* A sort that leaves out the entries of labels it cannot look up.
SortCompletedLenient(completed, ordered) ==
    Ok(Items(SortedByKey(
          SelectSeq(Listed([i \in DOMAIN completed |->
                       IF completed[i][1] \in Range(ordered) /\ completed[i][2] \in Range(ordered)
                       THEN << <<IndexOf(ordered, completed[i][1]),
                                 IndexOf(ordered, completed[i][2])>>, completed[i] >>
                       ELSE << <<>>, completed[i] >>]),
                    LAMBDA pair : pair[1] # <<>>))))

\* sorted(completed_od_matrix, key=(direction_index[origin], direction_index[destination]))
SortCompleted(completed, ordered) ==
    IF \E i \in DOMAIN completed :
          completed[i][1] \notin Range(ordered) \/ completed[i][2] \notin Range(ordered)
    THEN Raise("KeyError")
    ELSE Ok(Items(SortedByKey(Listed(
             [i \in DOMAIN completed |->
                 << <<IndexOf(ordered, completed[i][1]), IndexOf(ordered, completed[i][2])>>,
                    completed[i] >>]))))

\* order: the order in which the set `directions` is iterated.
sort_od_matrix(od, ordered, order) ==
    SortCompleted(DictSetAll(ZeroMatrix(order), od), ordered)

\* The keys of an OrderedDict after inserting each element of s in turn.
FirstSeen(s) ==
    LET firsts == { i \in DOMAIN s : \A j \in 1..(i - 1) : s[j] # s[i] }
    IN  Listed([k \in 1..Cardinality(firsts) |->
            s[CHOOSE i \in firsts : Cardinality({ j \in firsts : j <= i }) = k]])

get_unique_directions(od) ==
    FirstSeen([i \in DOMAIN od |-> od[i][1]] \o [i \in DOMAIN od |-> od[i][2]])

Min(S) == CHOOSE v \in S : \A w \in S : v <= w
Max(S) == CHOOSE v \in S : \A w \in S : v >= w

calculate_min_max(od) ==
    IF od = <<>> THEN Raise("ValueError")
    ELSE Ok(<<Min({ od[i][3] : i \in DOMAIN od }), Max({ od[i][3] : i \in DOMAIN od })>>)

\* max_value / max_edge_width; only whether it raises matters.
calculate_edge_width_reduction_factor(od, max_w) ==
    IF od = <<>> THEN Raise("ValueError")
    ELSE IF max_w = 0 THEN Raise("ZeroDivisionError")
    ELSE Ok(<<Max({ od[i][3] : i \in DOMAIN od }), max_w>>)

get_linewidth(value, min_value, max_value, min_w, max_w) ==
    IF max_value = min_value THEN Raise("ZeroDivisionError")
    ELSE Ok(FloatAddNat(min_w, FloatMulNat(value - min_value,
                                           FloatDiv(max_w - min_w, max_value - min_value))))

\* edge_cmap(normalized): the colormap sampled at a float.
get_cmap_color(value, min_value, max_value, cmap) ==
    IF max_value = min_value THEN Raise("ZeroDivisionError")
    ELSE Ok([cmap |-> cmap, at |-> FloatDiv(value - min_value, max_value - min_value)])

\* The angle of calculate_angle (90 degrees back), taken for the connection.
get_connection_angles_rotated(cartesian, key) == (cartesian[key] + 270) % 360

get_connection_angles(cartesian, key) == cartesian[key]

\* A distance counted the same way round on either driving side.
calculate_circular_distance_one_way(dirs, origin, destination, factor) ==
    LET start_index == IndexOf(dirs, origin)
        end_index   == IndexOf(dirs, destination)
    IN  IF factor = 1 \/ factor = -1
        THEN IF end_index >= start_index
             THEN Ok(end_index - start_index)
             ELSE Ok(Len(dirs) - start_index + end_index)
        ELSE Raise("UnboundLocalError")

calculate_circular_distance(dirs, origin, destination, factor) ==
    LET start_index == IndexOf(dirs, origin)
        end_index   == IndexOf(dirs, destination)
    IN  IF factor = 1
        THEN IF end_index >= start_index
             THEN Ok(end_index - start_index)
             ELSE Ok(Len(dirs) - start_index + end_index)
        ELSE IF factor = -1
        THEN IF start_index >= end_index
             THEN Ok(start_index - end_index)
             ELSE Ok(Len(dirs) - end_index + start_index)
        ELSE Raise("UnboundLocalError")

\* The two dicts origin_sums and destination_sums, as functions of the label.
RECURSIVE SumWhere(_, _, _)
SumWhere(od, column, key) ==
    IF od = <<>> THEN 0
    ELSE (IF od[1][column] = key THEN od[1][3] ELSE 0) + SumWhere(Tail(od), column, key)

\* The two dicts handed back in the other order.
sum_values_swapped(od) ==
    << [k \in { od[i][2] : i \in DOMAIN od } |-> SumWhere(od, 2, k)],
       [k \in { od[i][1] : i \in DOMAIN od } |-> SumWhere(od, 1, k)] >>

sum_values_by_origin_and_destination(od) ==
    << [k \in { od[i][1] : i \in DOMAIN od } |-> SumWhere(od, 1, k)],
       [k \in { od[i][2] : i \in DOMAIN od } |-> SumWhere(od, 2, k)] >>

(***************************************************************************)
(* Evaluation tables: get_linewidth depends on its arguments through        *)
(* value - min_value and max_value - min_value only, and the lane offset    *)
(* through the distance and the number of directions; the floats are        *)
(* computed once per argument tuple.                                        *)
(***************************************************************************)
TableFlow == IF MaxFlow > MaxValue THEN MaxFlow ELSE MaxValue

LinewidthTable ==
    <<>> @@ [t \in { <<w, d, k>> : w \in WidthConfigs \cup {DefaultWidths},
                                   d \in 0..TableFlow, k \in 0..TableFlow } |->
                IF t[3] > t[2] THEN Raise("None")
                ELSE get_linewidth(t[3], 0, t[2], t[1][1], t[1][2])]

Linewidth(value, min_value, max_value, min_w, max_w) ==
    LinewidthTable[<< <<min_w, max_w>>, max_value - min_value, value - min_value >>]

\* An offset that divides the bar by the number of directions.
lane_offset_by_count(circular_distance, n) ==
    FloatMulNat(width_road, FloatDiv(circular_distance, n))

\* circular_distance / (len(unique_directions) + 1) * width_road
lane_offset(circular_distance, n) ==
    FloatMulNat(width_road, FloatDiv(circular_distance, n + 1))

LaneOffsetTable ==
    <<>> @@ [t \in (1..(Cardinality(Labels) + 1)) \X (1..Cardinality(Labels)) |->
                lane_offset(t[1], t[2])]

NormalizedTable ==
    <<>> @@ [t \in (1..MaxValue) \X (0..MaxValue) |->
                IF t[2] > t[1] THEN FloatZero
                ELSE get_cmap_color(t[2], 0, t[1], "viridis").value.at]

(***************************************************************************)
(* plot: the commands issued on the drawing surface.                       *)
(***************************************************************************)
\* One iteration of the loop of plot_edges.
EdgeCommands(edge, unique, min_value, max_value) ==
    LET origin      == edge[1]
        destination == edge[2]
        value       == edge[3]
        Annotate(distance, angleA, angleB, linewidth, color, style) ==
            IF distance.raised # "None" THEN Raise(distance.raised)
            ELSE IF linewidth.raised # "None" THEN Raise(linewidth.raised)
            ELSE IF color.raised # "None" THEN Raise(color.raised)
            ELSE Ok(<< [cmd |-> "annotate", layer |-> "edge",
                        origin |-> origin, destination |-> destination, value |-> value,
                        connectionstyle |-> style, angleA |-> angleA, angleB |-> angleB,
                        arm |-> IF style = "arc" THEN -(radius * 5) ELSE 0,
                        circular_distance |-> distance.value + 1,
                        offset |-> LaneOffsetTable[<<distance.value + 1, Len(unique)>>],
                        factor |-> driving_side_factor,
                        linewidth |-> linewidth.value, color |-> color.value] >>
                    \o (IF individual_movement_text
                        THEN << [cmd |-> "text", layer |-> "individual_movement",
                                 key |-> origin, value |-> value] >>
                        ELSE <<>>))
        Styled(distance, angleA, angleB, linewidth, color) ==
            Annotate(distance, angleA, angleB, linewidth, color,
                     IF origin = destination THEN "arc"
                     ELSE IF (angleB - angleA) % 180 = 0 THEN "none"
                     ELSE "angle3")
    IN  Styled(calculate_circular_distance(unique, origin, destination, driving_side_factor),
               get_connection_angles(cartesian_angles, origin),
               get_connection_angles(cartesian_angles, destination),
               Linewidth(value, min_value, max_value, min_edge_width, max_edge_width),
               IF cmap_edges_name = "None" THEN Ok(colors[origin])
               ELSE IF max_value = min_value THEN Raise("ZeroDivisionError")
               ELSE Ok([cmap |-> cmap_edges_name,
                        at |-> NormalizedTable[<<max_value - min_value,
                                                 value - min_value>>]]))

RECURSIVE DrawEdges(_, _, _, _, _)
DrawEdges(od, unique, min_value, max_value, issued) ==
    IF od = <<>> THEN [raised |-> "None", ax |-> issued]
    ELSE LET Drawn(r) ==
                 IF r.raised # "None" THEN [raised |-> r.raised, ax |-> issued]
                 ELSE DrawEdges(Tail(od), unique, min_value, max_value, issued \o r.value)
         IN  Drawn(EdgeCommands(Head(od), unique, min_value, max_value))

plot_edges(od, unique) ==
    LET cmap == IF cmap_edges_name # "None" THEN cmap_edges_name ELSE edge_cmap
        Edges(factor, min_max) ==
            IF factor.raised # "None"
            THEN [raised |-> factor.raised, ax |-> <<>>, edge_cmap |-> edge_cmap]
            ELSE IF min_max.raised # "None"
            THEN [raised |-> min_max.raised, ax |-> <<>>, edge_cmap |-> edge_cmap]
            ELSE DrawEdges(od, unique, min_max.value[1], min_max.value[2], <<>>)
                 @@ [edge_cmap |-> cmap]
    IN  Edges(calculate_edge_width_reduction_factor(od, max_edge_width),
              calculate_min_max(od))

\* The layers plot_nodes draws for one direction.
NodeCommands(key, sums) ==
    (IF crossbar THEN << [cmd |-> "add_line", layer |-> "crossbar", key |-> key] >>
     ELSE <<>>)
    \o (IF exit_arrow
        THEN << [cmd |-> "add_patch", layer |-> "exit_arrow", key |-> key,
                 factor |-> driving_side_factor] >>
        ELSE <<>>)
    \o (IF direction_text
        THEN << [cmd |-> "text", layer |-> "direction", key |-> key, color |-> colors[key]] >>
        ELSE <<>>)
    \o (IF centerline THEN << [cmd |-> "plot", layer |-> "centerline", key |-> key] >>
        ELSE <<>>)
    \o (IF sum_movement_text
        THEN << [cmd |-> "text", layer |-> "sum_movement", key |-> key,
                 sum_out |-> sums[2][key], sum_in |-> sums[1][key]] >>
        ELSE <<>>)

RECURSIVE DrawNodes(_, _)
DrawNodes(unique, sums) ==
    IF unique = <<>> THEN <<>>
    ELSE NodeCommands(Head(unique), sums) \o DrawNodes(Tail(unique), sums)

\* roadside_anchors after the loop over unique_directions.
RoadsideAnchors(unique) ==
    IF roadside /\ unique # <<>>
    THEN [key \in Range(unique) |->
            [right |-> <<[key |-> key, side |-> -1], get_connection_angles(cartesian_angles, key)>>,
             left  |-> <<[key |-> key, side |-> 1], get_connection_angles(cartesian_angles, key)>>]]
    ELSE <<>>

\* A boundary segment that does not wrap from the last direction to the first.
RoadsideCommandOpen(unique, anchors, i) ==
    LET key     == unique[i + 1]
        i_next  == IF i + 1 < Len(unique) THEN i + 1 ELSE i
        current == anchors[key].left
        next    == anchors[unique[i_next + 1]].right
    IN  [cmd |-> "annotate", layer |-> "roadside",
         origin |-> current[1].key, destination |-> next[1].key,
         origin_side |-> current[1].side, destination_side |-> next[1].side,
         connectionstyle |-> IF (next[2] - current[2]) % 180 = 0 THEN "none" ELSE "angle3",
         angleA |-> current[2], angleB |-> next[2]]

\* The boundary segment from unique[i + 1] (0-based i) to the next direction.
RoadsideCommand(unique, anchors, i) ==
    LET key     == unique[i + 1]
        i_next  == (i + 1) % Len(unique)
        current == anchors[key].left
        next    == anchors[unique[i_next + 1]].right
    IN  [cmd |-> "annotate", layer |-> "roadside",
         origin |-> current[1].key, destination |-> next[1].key,
         origin_side |-> current[1].side, destination_side |-> next[1].side,
         connectionstyle |-> IF (next[2] - current[2]) % 180 = 0 THEN "none" ELSE "angle3",
         angleA |-> current[2], angleB |-> next[2]]

\* A node pass that adds to the anchor map of the previous call.
plot_nodes_keeping_anchors(od, unique) ==
    LET Nodes(sums, anchors) ==
            [raised |-> "None",
             ax |-> DrawNodes(unique, sums)
                    \o (IF roadside
                        THEN Listed([i \in 1..Len(unique) |->
                                        RoadsideCommand(unique, anchors, i - 1)])
                        ELSE <<>>),
             roadside_anchors |-> anchors]
    IN  Nodes(sum_values_by_origin_and_destination(od),
              RoadsideAnchors(unique) @@ roadside_anchors)

plot_nodes(od, unique) ==
    LET Nodes(sums, anchors) ==
            [raised |-> "None",
             ax |-> DrawNodes(unique, sums)
                    \o (IF roadside
                        THEN Listed([i \in 1..Len(unique) |->
                                        RoadsideCommand(unique, anchors, i - 1)])
                        ELSE <<>>),
             roadside_anchors |-> anchors]
    IN  Nodes(sum_values_by_origin_and_destination(od), RoadsideAnchors(unique))

customize_plot ==
    LET lim == (radius * 15) \div 10
    IN  << [cmd |-> "set_xlim", lim |-> lim], [cmd |-> "set_ylim", lim |-> lim],
           [cmd |-> "grid"], [cmd |-> "axis"], [cmd |-> "set_aspect"] >>

\* plot(ax, od_matrix) on a fresh drawing surface.
plot(od, order) ==
    LET Layers(sorted, unique, edges, nodes) ==
            IF edges.raised # "None"
            THEN [raised |-> edges.raised, ax |-> edges.ax, od_matrix |-> sorted,
                  unique_directions |-> unique, edge_cmap |-> edges.edge_cmap,
                  roadside_anchors |-> roadside_anchors]
            ELSE [raised |-> "None", ax |-> edges.ax \o nodes.ax \o customize_plot,
                  od_matrix |-> sorted, unique_directions |-> unique,
                  edge_cmap |-> edges.edge_cmap,
                  roadside_anchors |-> nodes.roadside_anchors]
        Draw(sorted, unique) ==
            Layers(sorted, unique, plot_edges(sorted, unique), plot_nodes(sorted, unique))
        Sorted(sorted) ==
            IF sorted.raised # "None"
            THEN [raised |-> sorted.raised, ax |-> <<>>, od_matrix |-> <<>>,
                  unique_directions |-> <<>>, edge_cmap |-> edge_cmap,
                  roadside_anchors |-> roadside_anchors]
            ELSE Draw(sorted.value, get_unique_directions(sorted.value))
    IN  Sorted(sort_od_matrix(od, ordered_directions, order))

Init ==
    /\ \E dm \in DirectionMaps, lht \in BOOLEAN, edges_name \in {"None", "viridis"} :
          Construct(dm, lht, "Set2", edges_name, DefaultWidths, TRUE)
    /\ call = <<>>
    /\ ret = NotCalled

\* A setter that stores the flag alone.
SetLeftHandTrafficFlagOnly(value) ==
    /\ left_hand_traffic' = value
    /\ UNCHANGED <<driving_side_factor, config, plotted, probe>>

\* The left_hand_traffic setter.
SetLeftHandTraffic(value) ==
    /\ left_hand_traffic' = value
    /\ driving_side_factor' = IF value THEN -1 ELSE 1
    /\ UNCHANGED <<config, plotted, probe>>

Plot(od, order) ==
    /\ LET Returned(r) ==
               /\ raised' = r.raised
               /\ ax' = r.ax
               /\ od_matrix' = r.od_matrix
               /\ unique_directions' = r.unique_directions
               /\ edge_cmap' = r.edge_cmap
               /\ roadside_anchors' = r.roadside_anchors
       IN  Returned(plot(od, order))
    /\ od_arg' = od
    /\ calls' = calls + 1
    /\ UNCHANGED <<config, traffic, probe>>

Next ==
    \/ \E value \in BOOLEAN : SetLeftHandTraffic(value)
    \/ /\ calls < MaxCalls
       /\ \E od \in OdMatrices :
             \E order \in IterationOrders(OdDirections(od)) : Plot(od, order)

Spec == Init /\ [][Next]_vars

(***************************************************************************)
(* The constructor alone, over every direction map of the bound.           *)
(***************************************************************************)
InitConstruct ==
    /\ \E dm \in ConstructMaps, lht \in BOOLEAN, name \in {"Set2", "black"} :
          Construct(dm, lht, name, "None", DefaultWidths, TRUE)
    /\ call = <<>>
    /\ ret = NotCalled

NextConstruct == \E value \in BOOLEAN : SetLeftHandTraffic(value)

SpecConstruct == InitConstruct /\ [][NextConstruct]_vars

(***************************************************************************)
(* get_linewidth alone: the arguments are drawn first, the call returns.   *)
(***************************************************************************)
StandardMap == << <<"N", 0>>, <<"E", 60>>, <<"S", 180>> >>

InitWidth ==
    /\ \E widths \in WidthConfigs :
          Construct(StandardMap, FALSE, "Set2", "None", widths, TRUE)
    /\ \E min_value \in 0..MaxFlow :
          \E max_value \in min_value..MaxFlow :
             \E value \in min_value..max_value :
                call = <<"get_linewidth", value, min_value, max_value>>
    /\ ret = NotCalled

GetLinewidthReturn ==
    /\ ret = NotCalled
    /\ call # <<>>
    /\ call[1] = "get_linewidth"
    /\ ret' = Linewidth(call[2], call[3], call[4], min_edge_width, max_edge_width)
    /\ UNCHANGED <<config, traffic, plotted, call>>

NextWidth == GetLinewidthReturn

SpecWidth == InitWidth /\ [][NextWidth]_vars

(***************************************************************************)
(* calculate_circular_distance alone, on any ring of distinct labels.      *)
(***************************************************************************)
InitDist ==
    /\ \E lht \in BOOLEAN :
          Construct(StandardMap, lht, "Set2", "None", DefaultWidths, TRUE)
    /\ \E ring \in Rings :
          \E origin \in Range(ring), destination \in Range(ring) :
             call = <<"calculate_circular_distance", ring, origin, destination>>
    /\ ret = NotCalled

CircularDistanceReturn ==
    /\ ret = NotCalled
    /\ call # <<>>
    /\ call[1] = "calculate_circular_distance"
    /\ ret' = calculate_circular_distance(call[2], call[3], call[4], driving_side_factor)
    /\ UNCHANGED <<config, traffic, plotted, call>>

NextDist == CircularDistanceReturn

SpecDist == InitDist /\ [][NextDist]_vars

(***************************************************************************)
(* Repeated plot calls on one instance, beside the same call on a fresh    *)
(* instance of the same configuration: call holds the OD list compared,    *)
(* ret what plot issues for it on the instance as constructed.             *)
(***************************************************************************)
InitReplay ==
    /\ \E dm \in ReplayMaps, lht \in BOOLEAN, edges_name \in {"None", "viridis"} :
          Construct(dm, lht, "Set2", edges_name, DefaultWidths, TRUE)
    /\ \E od \in ReplayMatrices : call = <<"plot", od>>
    /\ ret = NotCalled

\* plot(call[2]) on the freshly constructed instance.
PlotOnFresh ==
    /\ calls = 0
    /\ ret = NotCalled
    /\ \E order \in IterationOrders(OdDirections(call[2])) :
          ret' = Ok([left_hand_traffic |-> left_hand_traffic,
                     issued |-> plot(call[2], order)])
    /\ UNCHANGED <<config, traffic, plotted, call>>

NextReplay ==
    \/ PlotOnFresh
    \/ \E value \in BOOLEAN : SetLeftHandTraffic(value)
    \/ /\ calls < MaxReplayCalls
       /\ ret # NotCalled
       /\ \E od \in ReplayMatrices :
             \E order \in IterationOrders(OdDirections(od)) : Plot(od, order)

SpecReplay == InitReplay /\ [][NextReplay]_vars

(***************************************************************************)
(* Properties.                                                             *)
(***************************************************************************)
Called == calls > 0

\* Every label of the OD list is a key of the direction map.
LabelsConfigured == OdDirections(od_arg) \subseteq Range(directions)

\* The value of the last triple of od for the pair, 0 when there is none.
LastValue(od, origin, destination) ==
    LET hits == { i \in DOMAIN od : od[i][1] = origin /\ od[i][2] = destination }
    IN  IF hits = {} THEN 0 ELSE od[Max(hits)][3]

Entries(origin, destination) ==
    { i \in DOMAIN od_matrix : od_matrix[i][1] = origin /\ od_matrix[i][2] = destination }

\* C1: over the set D of labels of the OD list, sort_od_matrix returns
\* exactly |D|^2 triples, one per ordered pair of D x D, valued 0 for an
\* absent pair and with the value of the last input triple for a present one.
C1_Completion ==
    (Called /\ LabelsConfigured) =>
        /\ raised # "KeyError"
        /\ Len(od_matrix) = Cardinality(OdDirections(od_arg)) * Cardinality(OdDirections(od_arg))
        /\ \A origin \in OdDirections(od_arg), destination \in OdDirections(od_arg) :
              /\ Cardinality(Entries(origin, destination)) = 1
              /\ \A i \in Entries(origin, destination) :
                    od_matrix[i][3] = LastValue(od_arg, origin, destination)

\* A pair given twice, first with the larger value, beside pairs never given.
C1_Witness ==
    /\ Called /\ LabelsConfigured
    /\ raised = "None"
    /\ Len(od_arg) = 2
    /\ od_arg[1][1] = od_arg[2][1] /\ od_arg[1][2] = od_arg[2][2]
    /\ od_arg[1][1] # od_arg[1][2]
    /\ od_arg[1][3] = 2 /\ od_arg[2][3] = 1
    /\ Len(od_matrix) = 4

\* C2: the list sort_od_matrix returns is strictly ascending in the key
\* (index of origin, index of destination) in ordered_directions.
C2_Sorted ==
    (Called /\ LabelsConfigured) =>
        \A i \in 1..(Len(od_matrix) - 1) :
            LET o1 == IndexOf(ordered_directions, od_matrix[i][1])
                d1 == IndexOf(ordered_directions, od_matrix[i][2])
                o2 == IndexOf(ordered_directions, od_matrix[i + 1][1])
                d2 == IndexOf(ordered_directions, od_matrix[i + 1][2])
            IN  o1 < o2 \/ (o1 = o2 /\ d1 < d2)

\* Nine entries from an OD list that names the last ordered direction first,
\* under a map whose insertion order is not its angle order.
C2_Witness ==
    /\ Called /\ LabelsConfigured
    /\ raised = "None"
    /\ Len(od_matrix) = 9
    /\ directions # ordered_directions
    /\ od_arg[1][1] = ordered_directions[3]
    /\ od_matrix[1][1] = ordered_directions[1]

\* C3: ordered_directions is a permutation of the configured labels, sorted
\* ascending by the configured compass angle.
C3_OrderedByCompassAngle ==
    /\ Len(ordered_directions) = Len(compass_direction_angles)
    /\ Range(ordered_directions) = Range(DictKeys(compass_direction_angles))
    /\ \A i, j \in DOMAIN ordered_directions :
          i < j => /\ ordered_directions[i] # ordered_directions[j]
                   /\ DictGet(compass_direction_angles, ordered_directions[i])
                        <= DictGet(compass_direction_angles, ordered_directions[j])

\* Three directions whose angle order is neither the insertion order nor the
\* order of the transformed angles.
C3_Witness ==
    /\ Len(ordered_directions) = 3
    /\ ordered_directions # directions
    /\ \E i, j \in DOMAIN ordered_directions :
          /\ i < j
          /\ cartesian_angles[ordered_directions[i]] > cartesian_angles[ordered_directions[j]]

LinewidthReturned ==
    /\ call # <<>>
    /\ call[1] = "get_linewidth"
    /\ ret # NotCalled

\* C4: with minValue < maxValue and min_edge_width <= max_edge_width,
\* get_linewidth(minValue) = min_edge_width, get_linewidth(maxValue) =
\* max_edge_width, get_linewidth is non-decreasing on [minValue, maxValue],
\* and every width lies in [min_edge_width, max_edge_width].
C4_LinearEncoding ==
    (LinewidthReturned /\ call[3] < call[4] /\ min_edge_width <= max_edge_width) =>
        /\ ret.raised = "None"
        /\ Linewidth(call[3], call[3], call[4], min_edge_width, max_edge_width).value
              = FloatOfNat(min_edge_width)
        /\ Linewidth(call[4], call[3], call[4], min_edge_width, max_edge_width).value
              = FloatOfNat(max_edge_width)
        /\ \A v \in call[2]..call[4] :
              FloatLE(ret.value,
                      Linewidth(v, call[3], call[4], min_edge_width, max_edge_width).value)
        /\ FloatLE(FloatOfNat(min_edge_width), ret.value)
        /\ FloatLE(ret.value, FloatOfNat(max_edge_width))

EdgeCommandsOf(surface) ==
    { i \in DOMAIN surface : surface[i].cmd = "annotate" /\ surface[i].layer = "edge" }

\* C5: when every value of the completed matrix is equal, plot does not
\* raise and every edge gets the same width.
C5_EqualValuesDoNotRaise ==
    (/\ Called /\ LabelsConfigured
     /\ od_matrix # <<>>
     /\ \A i, j \in DOMAIN od_matrix : od_matrix[i][3] = od_matrix[j][3]) =>
        /\ raised = "None"
        /\ \A i, j \in EdgeCommandsOf(ax) : ax[i].linewidth = ax[j].linewidth

\* C6: with the single direction {N: 0} and one N -> N triple, plot runs to
\* completion: a self-loop at circular distance 1 and a roadside segment
\* from N to N.
C6_SingleDirectionRenders ==
    (/\ Called
     /\ compass_direction_angles = << <<"N", 0>> >>
     /\ Len(od_arg) = 1 /\ od_arg[1][1] = "N" /\ od_arg[1][2] = "N") =>
        /\ raised = "None"
        /\ \E i \in EdgeCommandsOf(ax) :
              /\ ax[i].origin = "N" /\ ax[i].destination = "N"
              /\ ax[i].connectionstyle = "arc"
              /\ ax[i].circular_distance = 1
        /\ \E i \in DOMAIN ax :
              /\ ax[i].cmd = "annotate" /\ ax[i].layer = "roadside"
              /\ ax[i].origin = "N" /\ ax[i].destination = "N"

DistanceReturned ==
    /\ call # <<>>
    /\ call[1] = "calculate_circular_distance"
    /\ ret # NotCalled

\* C7: on a fixed ring, the distance from A to B on one driving side is the
\* distance from B to A on the other side, and lies in 0..len(ring)-1.
C7_DistanceSymmetry ==
    DistanceReturned =>
        /\ ret.raised = "None"
        /\ ret.value \in 0..(Len(call[2]) - 1)
        /\ ret = calculate_circular_distance(call[2], call[4], call[3], -driving_side_factor)

\* Two directions two steps apart on a ring of four, in left-hand traffic.
C7_Witness ==
    /\ DistanceReturned
    /\ Len(call[2]) = 4
    /\ call[3] # call[4]
    /\ driving_side_factor = -1
    /\ ret.raised = "None"
    /\ ret.value = 3

\* C8 as stated: a continuous colormap is sampled, for each direction, at
\* its position in ordered_directions over the number of directions.
C8_ColorsFollowOrderedDirections ==
    cmap_name \in Colormaps =>
        \A d \in Range(directions) :
            /\ colors[d].index = IndexOf(ordered_directions, d)
            /\ colors[d].total = Len(directions)

\* C8 amended: a continuous colormap is sampled, for each direction, at its
\* position in the direction map's own (insertion) order over the number of
\* directions.
C8_ColorsFollowInsertionOrder ==
    cmap_name \in Colormaps =>
        \A i \in DOMAIN compass_direction_angles :
            /\ colors[compass_direction_angles[i][1]].cmap = cmap_name
            /\ colors[compass_direction_angles[i][1]].index = i - 1
            /\ colors[compass_direction_angles[i][1]].total = Len(compass_direction_angles)

\* A colormap over three directions listed out of angle order.
C8_Witness ==
    /\ cmap_name \in Colormaps
    /\ Len(compass_direction_angles) = 3
    /\ directions # ordered_directions
    /\ colors[ordered_directions[1]].index = 2

RECURSIVE SumOver(_, _)
SumOver(od, indices) ==
    IF indices = {} THEN 0
    ELSE LET i == CHOOSE j \in indices : TRUE
         IN  od[i][3] + SumOver(od, indices \ {i})

SumTexts == { i \in DOMAIN ax : ax[i].cmd = "text" /\ ax[i].layer = "sum_movement" }

\* C9 as stated: the total annotated 'out' is the sum over the triples whose
\* origin is the direction, and 'in' the sum over those whose destination is.
C9_OutIsOriginSum ==
    (Called /\ raised = "None") =>
        /\ \A d \in Range(unique_directions) : \E i \in SumTexts : ax[i].key = d
        /\ \A i \in SumTexts :
              /\ ax[i].sum_out = SumOver(od_matrix, { j \in DOMAIN od_matrix :
                                                        od_matrix[j][1] = ax[i].key })
              /\ ax[i].sum_in = SumOver(od_matrix, { j \in DOMAIN od_matrix :
                                                       od_matrix[j][2] = ax[i].key })

\* C9 amended: the total annotated 'out' is the sum over the triples whose
\* destination is the direction, and 'in' the sum over those whose origin is.
C9_OutIsDestinationSum ==
    (Called /\ raised = "None") =>
        /\ \A d \in Range(unique_directions) : \E i \in SumTexts : ax[i].key = d
        /\ \A i \in SumTexts :
              /\ ax[i].sum_out = SumOver(od_matrix, { j \in DOMAIN od_matrix :
                                                        od_matrix[j][2] = ax[i].key })
              /\ ax[i].sum_in = SumOver(od_matrix, { j \in DOMAIN od_matrix :
                                                       od_matrix[j][1] = ax[i].key })

\* A drawn direction that two flows leave and none enters.
C9_Witness ==
    /\ Called /\ raised = "None"
    /\ \E i \in SumTexts : ax[i].sum_in = 3 /\ ax[i].sum_out = 0

\* C10: an OD list naming a label that is no key of the direction map makes
\* plot raise a lookup error before any command is issued.
C10_UnknownLabelFailsFirst ==
    (Called /\ ~LabelsConfigured) =>
        /\ raised = "KeyError"
        /\ ax = <<>>

\* The unknown label comes second, after a triple of configured labels with
\* a flow, and as a destination only.
C10_Witness ==
    /\ Called /\ ~LabelsConfigured
    /\ Len(od_arg) = 2
    /\ {od_arg[1][1], od_arg[1][2], od_arg[2][1]} \subseteq Range(directions)
    /\ od_arg[1][1] # od_arg[1][2]
    /\ od_arg[1][3] = 1 /\ od_arg[2][3] = 0
    /\ raised = "KeyError"

\* Two distinct labels of the direction map have the same angle.
EqualAngles ==
    \E i, j \in DOMAIN compass_direction_angles :
        i # j /\ compass_direction_angles[i][2] = compass_direction_angles[j][2]

\* C11: a direction map in which two distinct labels have the same angle is
\* a configuration error: there is no instance of such a map on which plot
\* draws a diagram.
C11_EqualAnglesNotDrawable ==
    EqualAngles => ~(Called /\ raised = "None" /\ EdgeCommandsOf(ax) # {})

\* A step of plot on the compared OD list, under the driving side the fresh
\* instance had.
ReplayStep ==
    /\ calls' = calls + 1
    /\ ret # NotCalled
    /\ call[1] = "plot"
    /\ od_arg' = call[2]
    /\ left_hand_traffic = ret.value.left_hand_traffic

Replayed ==
    /\ Called
    /\ ret # NotCalled
    /\ call[1] = "plot"
    /\ od_arg = call[2]
    /\ left_hand_traffic = ret.value.left_hand_traffic

FloatLess(f, g) == ~FloatLE(g, f)

\* Steps from origin to destination along unique_directions, clockwise for
\* factor 1 and anticlockwise for factor -1.
RingDistance(origin, destination, factor) ==
    LET n == Len(unique_directions)
        o == IndexOf(unique_directions, origin)
        d == IndexOf(unique_directions, destination)
    IN  IF factor = 1 THEN (d - o) % n ELSE (o - d) % n

\* C13: every edge's lane offset is (ring distance + 1) / (n + 1) *
\* width_road with n the number of unique directions, strictly between 0 and
\* width_road; two edges of one origin and different destinations, or of
\* one destination and different origins, have different offsets; for a
\* fixed origin the offset grows strictly with the ring distance.
C13_LaneOffsets ==
    (Called /\ raised = "None") =>
        \A i \in EdgeCommandsOf(ax) :
            /\ ax[i].circular_distance
                  = RingDistance(ax[i].origin, ax[i].destination, ax[i].factor) + 1
            /\ ax[i].offset
                  = FloatMulNat(width_road,
                                FloatDiv(ax[i].circular_distance, Len(unique_directions) + 1))
            /\ FloatLess(FloatZero, ax[i].offset)
            /\ FloatLess(ax[i].offset, FloatOfNat(width_road))
            /\ \A j \in EdgeCommandsOf(ax) :
                  /\ (ax[i].origin = ax[j].origin /\ ax[i].destination # ax[j].destination)
                        => ax[i].offset # ax[j].offset
                  /\ (ax[i].destination = ax[j].destination /\ ax[i].origin # ax[j].origin)
                        => ax[i].offset # ax[j].offset
                  /\ (ax[i].origin = ax[j].origin
                      /\ ax[i].circular_distance < ax[j].circular_distance)
                        => FloatLess(ax[i].offset, ax[j].offset)

\* Three directions in left-hand traffic: one origin with edges at ring
\* distances 0 and 2.
C13_Witness ==
    /\ Called /\ raised = "None"
    /\ Len(unique_directions) = 3
    /\ \E i, j \in EdgeCommandsOf(ax) :
          /\ ax[i].factor = -1
          /\ ax[i].origin = ax[j].origin
          /\ ax[i].circular_distance = 1
          /\ ax[j].circular_distance = 3
          /\ ax[j].destination = unique_directions[2]

\* (450 - compass angle) mod 360 of a configured direction.
CartesianOf(d) == (450 - DictGet(compass_direction_angles, d)) % 360

\* The cartesian angles of the two directions differ by a multiple of 180.
Opposite(origin, destination) ==
    \E k \in -2..2 : CartesianOf(destination) - CartesianOf(origin) = 180 * k

EdgeSequence ==
    SelectSeq(ax, LAMBDA c : c.cmd = "annotate" /\ c.layer = "edge")

\* C14: every edge of the completed matrix gets exactly one connector: a
\* wide loop (arc, arms 5 * radius) iff origin = destination, a straight
\* segment iff the endpoints differ and their cartesian angles differ by a
\* multiple of 180, a 3-point curve between the two cartesian angles
\* otherwise; no curve is requested across a multiple of 180.
C14_ConnectorShape ==
    (Called /\ raised = "None") =>
        /\ Len(EdgeSequence) = Len(od_matrix)
        /\ \A k \in DOMAIN EdgeSequence :
              LET c == EdgeSequence[k]
              IN  /\ c.origin = od_matrix[k][1] /\ c.destination = od_matrix[k][2]
                  /\ c.connectionstyle \in {"arc", "none", "angle3"}
                  /\ c.connectionstyle = "arc" <=> c.origin = c.destination
                  /\ c.connectionstyle = "none"
                        <=> (c.origin # c.destination /\ Opposite(c.origin, c.destination))
                  /\ c.connectionstyle = "arc" => c.arm = -(5 * radius)
                  /\ c.connectionstyle # "none"
                        => /\ c.angleA = CartesianOf(c.origin)
                           /\ c.angleB = CartesianOf(c.destination)
                  /\ c.connectionstyle = "angle3" => ~Opposite(c.origin, c.destination)

\* One diagram with a loop, a straight segment and a curve.
C14_Witness ==
    /\ Called /\ raised = "None"
    /\ \E i, j, k \in DOMAIN EdgeSequence :
          /\ EdgeSequence[i].connectionstyle = "arc"
          /\ EdgeSequence[j].connectionstyle = "none"
          /\ EdgeSequence[j].angleA # EdgeSequence[j].angleB
          /\ EdgeSequence[k].connectionstyle = "angle3"

RoadsideSequence ==
    SelectSeq(ax, LAMBDA c : c.cmd = "annotate" /\ c.layer = "roadside")

\* ordered_directions restricted to the directions of the OD list.
MatrixRing ==
    SelectSeq(ordered_directions, LAMBDA d : d \in OdDirections(od_arg))

\* C15: with the roadside layer on, plot_nodes draws one boundary segment
\* per direction of the matrix, from its left anchor to the right anchor of
\* the next direction of ordered_directions among the matrix's directions
\* (wrapping at the end); every direction is the source of one segment and
\* the target of one, whatever the order of the OD triples.
C15_RoadsideRing ==
    (Called /\ raised = "None" /\ roadside) =>
        /\ Len(RoadsideSequence) = Len(MatrixRing)
        /\ \A k \in DOMAIN MatrixRing :
              /\ Cardinality({ i \in DOMAIN RoadsideSequence :
                                 RoadsideSequence[i].origin = MatrixRing[k] }) = 1
              /\ Cardinality({ i \in DOMAIN RoadsideSequence :
                                 RoadsideSequence[i].destination = MatrixRing[k] }) = 1
              /\ \A i \in DOMAIN RoadsideSequence :
                    RoadsideSequence[i].origin = MatrixRing[k] =>
                        /\ RoadsideSequence[i].destination
                              = MatrixRing[(k % Len(MatrixRing)) + 1]
                        /\ RoadsideSequence[i].origin_side = 1
                        /\ RoadsideSequence[i].destination_side = -1

\* Three directions listed out of angle order, named by the OD list last
\* direction first.
C15_Witness ==
    /\ Called /\ raised = "None" /\ roadside
    /\ Len(MatrixRing) = 3
    /\ directions # ordered_directions
    /\ od_arg[1][1] = ordered_directions[3]
    /\ od_arg[1][2] = ordered_directions[2]
    /\ Len(RoadsideSequence) = 3

\* C16: after construction and after any assignments to left_hand_traffic
\* and plot calls, driving_side_factor is -1 when left_hand_traffic is true
\* and 1 when it is false, so calculate_circular_distance always takes one
\* of its two branches and no plot ends on an unbound distance.
C16_DrivingSideFactor ==
    /\ driving_side_factor = (IF left_hand_traffic THEN -1 ELSE 1)
    /\ raised # "UnboundLocalError"
    /\ \A i \in EdgeCommandsOf(ax) :
          /\ ax[i].factor \in {-1, 1}
          /\ ax[i].circular_distance \in 1..Len(unique_directions)

\* Left-hand traffic set after a plot that drew its edges in right-hand
\* traffic.
C16_Witness ==
    /\ Called /\ raised = "None"
    /\ left_hand_traffic
    /\ driving_side_factor = -1
    /\ \E i \in EdgeCommandsOf(ax) : ax[i].factor = 1 /\ ax[i].circular_distance = 2
====
